---------------------------- MODULE Spec2Model ----------------------------
(***************************************************************************)
(* Model of CondCore/SiPixelPlugins/plugins/                               *)
(* SiPixelDynamicInefficiency_PayloadInspector.cc: the region unpacker     *)
(* (pbrf), the two hierarchy matchers (getMatchingGeomFactor,              *)
(* getMatchingPUFactors), the phase validator (checkPhase), the grid       *)
(* layout routine (getClosestFactors) and the fill() methods of the ROC    *)
(* map and of the two full-pixel map plots.                                *)
(*                                                                         *)
(* Representation.                                                         *)
(*  - A 32-bit word (uint32_t, DetId::rawId()) is the set of the positions *)
(*    of its 1 bits, a subset of 0..31.  &, |, ~, << and >> are then set   *)
(*    operations on all 32 bits, and == is set equality.                   *)
(*  - A double is a dyadic rational [m |-> m, k |-> k] = m * 2^(-k), m odd *)
(*    (or m = 0, k = 0).  Every value used has fewer than 31 significant   *)
(*    bits, so products and 1 - x are exact in IEEE double, as computed    *)
(*    here; the narrowing to float (24 significant bits, round to nearest  *)
(*    even) is computed bit by bit.                                        *)
(***************************************************************************)
EXTENDS Integers, Naturals, Sequences, FiniteSets, TLC

VARIABLES
  pc,                \* the routine that ran last, or the position inside it
  PixelGeomFactors,  \* payload->getPixelGeomFactors(): FactorMap
  PUFactors,         \* payload->getPUFactors(): PUFactorMap
  DetIdmasks,        \* payload->getDetIdmasks(): vector<uint32_t>
  detid,             \* the target DetId handed to a matcher
  geomfactor_db,     \* value returned by getMatchingGeomFactor
  pufactors_db,      \* value returned by getMatchingPUFactors
  f,                 \* value returned by pbrf: BRFractions
  phase,             \* the phase handed to checkPhase
  compatible,        \* value returned by checkPhase
  depth,             \* fill(): maxDepthOfPUArray(theMap)
  input,             \* getClosestFactors: its parameter (modified in place)
  testNum,           \* getClosestFactors: its local
  sides,             \* value returned by getClosestFactors
  plot,              \* the plot class whose fill() runs
  todo,              \* fill(): the elements its range-for has yet to visit
  fullMap,           \* FullPixelMap::fill(): the Phase1PixelSummaryMap, by module
  maps,              \* PUPixelMaps::fill(): vector<Phase1PixelSummaryMap>
  rocToMark,         \* IneffROCfromDynIneffMap::fill(): the std::bitset<16>
  theMap             \* IneffROCfromDynIneffMap::fill(): the Phase1PixelROCMaps

vars == <<pc, PixelGeomFactors, PUFactors, DetIdmasks, detid, geomfactor_db,
          pufactors_db, f, phase, compatible, depth, input, testNum, sides,
          plot, todo, fullMap, maps, rocToMark, theMap>>

\* the state of the fill() methods
fillVars == <<plot, todo, fullMap, maps, rocToMark, theMap>>

-----------------------------------------------------------------------------
(* Bounds of the model *)

\* largest number of entries of a FactorMap / PUFactorMap
MaxEntries == 2
\* largest length of a PU factor vector
MaxDepth == 24
\* the negative arguments tried are -1 .. -MaxNegative
MaxNegative == 4

-----------------------------------------------------------------------------
(* 32-bit words *)

Word == 0..31

And(a, b) == a \cap b
Or(a, b) == a \cup b
Not(a) == Word \ a
Shl(a, n) == {b + n : b \in a} \cap Word
Shr(a, n) == {b - n : b \in {c \in a : c >= n}}

RECURSIVE FromNat(_)
\* the word of a non-negative integer
FromNat(n) == IF n = 0 THEN {}
              ELSE Or(IF n % 2 = 1 THEN {0} ELSE {}, Shl(FromNat(n \div 2), 1))

RECURSIVE ToNat(_)
\* the integer of a word below 2^31
ToNat(a) == IF a = {} THEN 0
            ELSE LET b == CHOOSE x \in a : TRUE IN 2^b + ToNat(a \ {b})

\* unsigned comparison a < b: the highest bit in which they differ is b's
Less(a, b) ==
  LET d == (a \ b) \cup (b \ a) IN
  d # {} /\ (CHOOSE x \in d : \A y \in d : y <= x) \in b

\* std::numeric_limits<uint32_t>::max()
max == Word

-----------------------------------------------------------------------------
(* DetId (DataFormats/DetId) and PixelSubdetector *)

Tracker == 1
PixelBarrel == 1
PixelEndcap == 2

\* DetId::det(): (id_ >> kDetOffset) & kDetMask, bits 28..31
det(id) == ToNat(And(Shr(id, 28), {0, 1, 2, 3}))
\* DetId::subdetId(): (id_ >> kSubdetOffset) & kSubdetMask, bits 25..27
subdetId(id) == ToNat(And(Shr(id, 25), {0, 1, 2}))
\* DetId(Detector, int subdet).rawId()
DetIdOf(d, s) == Or(Shl(And(FromNat(d), {0, 1, 2, 3}), 28),
                    Shl(And(FromNat(s), {0, 1, 2}), 25))

-----------------------------------------------------------------------------
(* TrackerTopology built from trackerParameters.xml (Geometry/TrackerCommonData) *)

\* SiPixelPI::phase
Phases == {"zero", "one", "two"}

\* a bit field of `width` bits starting at bit `start`
Field(start, width) == {b \in Word : start <= b /\ b < start + width}

\* pxbVals_: start bit and width of the layer, ladder and module fields
pxbVals(ph) ==
  IF ph = "zero" THEN <<Field(16, 4), Field(8, 8), Field(2, 6)>>
  ELSE <<Field(20, 4), Field(12, 8), Field(2, 10)>>

\* pxfVals_: the side, disk, blade, panel and module fields
pxfVals(ph) ==
  IF ph = "zero"
    THEN <<Field(23, 2), Field(16, 4), Field(10, 6), Field(8, 2), Field(2, 6)>>
    ELSE <<Field(23, 2), Field(18, 4), Field(12, 6), Field(10, 2), Field(2, 8)>>

\* the lowest bit of a field
StartBit(fld) == CHOOSE b \in fld : \A c \in fld : b <= c

\* ((value & mask) << startBit), for the mask and start bit of the field
Place(value, fld) ==
  And(Shl(value, StartBit(fld)), fld)

\* TrackerTopology::pxbDetId(layer, ladder, module).rawId()
pxbDetId(ph, layer, ladder, module) ==
  Or(DetIdOf(Tracker, PixelBarrel),
     Or(Place(layer, pxbVals(ph)[1]),
        Or(Place(ladder, pxbVals(ph)[2]), Place(module, pxbVals(ph)[3]))))

\* TrackerTopology::pxfDetId(side, disk, blade, panel, module).rawId()
pxfDetId(ph, side, disk, blade, panel, module) ==
  Or(DetIdOf(Tracker, PixelEndcap),
     Or(Place(side, pxfVals(ph)[1]),
        Or(Place(disk, pxfVals(ph)[2]),
           Or(Place(blade, pxfVals(ph)[3]),
              Or(Place(panel, pxfVals(ph)[4]), Place(module, pxfVals(ph)[5]))))))

-----------------------------------------------------------------------------
(* IEEE doubles that are dyadic rationals *)

RECURSIVE Norm(_, _)
\* m * 2^(-k) in lowest terms
Norm(m, k) == IF m = 0 THEN [m |-> 0, k |-> 0]
              ELSE IF m % 2 = 0 /\ k > 0 THEN Norm(m \div 2, k - 1)
              ELSE [m |-> m, k |-> k]

\* the double 1
One == [m |-> 1, k |-> 0]

\* only the first factor applied
MulKeepsFirst(a, b) == IF a = One THEN b ELSE a

\* `=` written for `*=`
MulAssigns(a, b) == b

\* a * b on doubles (exact: the product has fewer than 53 significant bits)
Mul(a, b) == Norm(a.m * b.m, a.k + b.k)

\* 1 - a on doubles, for 0 <= a <= 1 (exact)
OneMinus(a) == Norm(2^(a.k) - a.m, a.k)

RECURSIVE BitLen(_)
\* number of significant bits of m
BitLen(m) == IF m = 0 THEN 0 ELSE 1 + BitLen(m \div 2)

\* double -> float: keep 24 significant bits, round to nearest, ties to even
ToFloat(a) ==
  IF BitLen(a.m) <= 24 THEN a
  ELSE LET drop == BitLen(a.m) - 24
           unit == 2^drop
           q    == a.m \div unit
           r    == a.m % unit
           up   == (2 * r > unit) \/ (2 * r = unit /\ q % 2 = 1)
           kept == IF up THEN q + 1 ELSE q
       IN IF a.k >= drop THEN Norm(kept, a.k - drop)
          ELSE [m |-> kept * 2^(drop - a.k), k |-> 0]

-----------------------------------------------------------------------------
(* std::map iteration: ascending unsigned key *)

\* the map walked from its largest key down
FirstKeyDescending(keys) == CHOOSE k \in keys : \A o \in keys : o = k \/ Less(o, k)

\* the first key of a non-empty key set in std::map order
FirstKey(keys) == CHOOSE k \in keys : \A o \in keys : o = k \/ Less(k, o)

-----------------------------------------------------------------------------
(* getMatchingGeomFactor / getMatchingPUFactors *)

\* the break taken on any difference, the all-zero field not exempted
maskBreaksNoWildcard(target, mapid, maskid) ==
  And(target, maskid) # And(mapid, maskid)

\* the condition of the `break` inside the mask loop
maskBreaks(target, mapid, maskid) ==
  /\ And(target, maskid) # And(mapid, maskid)
  /\ And(mapid, maskid) # DetIdOf(det(mapid), subdetId(mapid))

RECURSIVE maskLoop(_, _, _, _)
\* the for loop over detIdmasks, entered with __i = i: the value of __i when
\* the loop is left (detIdmasks.size() unless a mask made it break)
maskLoop(target, mapid, detIdmasks, i) ==
  IF ~(i < Len(detIdmasks)) THEN i
  ELSE LET maskid == detIdmasks[i + 1] IN
       IF subdetId(maskid) # subdetId(mapid)
         THEN maskLoop(target, mapid, detIdmasks, i + 1)
       ELSE IF maskBreaks(target, mapid, maskid)
         THEN i
       ELSE maskLoop(target, mapid, detIdmasks, i + 1)

\* the subdetector of the map element not compared with the target's
entryAppliesAnySubdet(target, mapid, detIdmasks) ==
  ~(maskLoop(target, mapid, detIdmasks, 0) # Len(detIdmasks))

\* the loop over detIdmasks left after its first iteration
entryAppliesFirstMask(target, mapid, detIdmasks) ==
  IF subdetId(mapid) # subdetId(target) THEN FALSE
  ELSE IF detIdmasks = <<>> THEN TRUE
  ELSE ~(maskLoop(target, mapid, <<detIdmasks[1]>>, 0) # 1)

\* TRUE iff the body of the loop over the map reaches its last statement for
\* this map element (neither `continue` is taken)
entryApplies(target, mapid, detIdmasks) ==
  IF subdetId(mapid) # subdetId(target) THEN FALSE
  ELSE ~(maskLoop(target, mapid, detIdmasks, 0) # Len(detIdmasks))

RECURSIVE geomLoop(_, _, _, _, _)
\* the loop over map_geomfactor, `rest` being the keys not yet visited
geomLoop(target, map_geomfactor, detIdmasks, rest, acc) ==
  IF rest = {} THEN acc
  ELSE LET mapid == FirstKey(rest) IN
       geomLoop(target, map_geomfactor, detIdmasks, rest \ {mapid},
                IF entryApplies(target, mapid, detIdmasks)
                  THEN Mul(acc, map_geomfactor[mapid])
                  ELSE acc)

getMatchingGeomFactor(target, map_geomfactor, detIdmasks) ==
  geomLoop(target, map_geomfactor, detIdmasks, DOMAIN map_geomfactor, One)

RECURSIVE puLoop(_, _, _, _, _)
\* the loop over map_pufactory
puLoop(target, map_pufactory, detIdmasks, rest, acc) ==
  IF rest = {} THEN acc
  ELSE LET mapid == FirstKey(rest) IN
       puLoop(target, map_pufactory, detIdmasks, rest \ {mapid},
              IF entryApplies(target, mapid, detIdmasks)
                THEN map_pufactory[mapid]
                ELSE acc)

getMatchingPUFactors(target, map_pufactory, detIdmasks) ==
  puLoop(target, map_pufactory, detIdmasks, DOMAIN map_pufactory, <<>>)

-----------------------------------------------------------------------------
(* Inputs of the matchers *)

\* the number n as a field value
N(n) == FromNat(n)

\* reader.getAllDetIds() of the Phase-1 detector: a sample of its modules
p1detIds ==
  { pxbDetId("one", N(1), N(2), N(1)),
    pxbDetId("one", N(2), N(1), N(2)),
    pxfDetId("one", N(1), N(1), N(1), N(1), N(1)),
    pxfDetId("one", N(2), N(1), N(3), N(2), N(1)) }

\* keys of the factor maps: identifiers with some hierarchy fields left zero
StoredIds ==
  { pxbDetId("one", N(0), N(0), N(0)),
    pxbDetId("one", N(1), N(0), N(0)),
    pxbDetId("one", N(0), N(2), N(0)),
    pxbDetId("one", N(0), N(0), N(1)),
    pxfDetId("one", N(0), N(0), N(0), N(0), N(0)),
    pxfDetId("one", N(1), N(1), N(0), N(0), N(0)),
    pxfDetId("one", N(0), N(0), N(3), N(2), N(0)) }

\* the masks the topology of a phase gives (checkPhase's masks_geom)
masks_geom(ph) ==
  << pxbDetId(ph, max, {}, {}),
     pxbDetId(ph, {}, max, {}),
     pxbDetId(ph, {}, {}, max),
     pxfDetId(ph, max, {}, {}, {}, {}),
     pxfDetId(ph, {}, max, {}, {}, {}),
     pxfDetId(ph, {}, {}, max, {}, {}),
     pxfDetId(ph, {}, {}, {}, max, {}),
     pxfDetId(ph, {}, {}, {}, {}, max) >>

Reverse(s) == [i \in 1..Len(s) |-> s[Len(s) + 1 - i]]

\* mask lists a payload may carry
MatchMaskLists ==
  { masks_geom("one"), masks_geom("zero"), Reverse(masks_geom("one")),
    SubSeq(masks_geom("one"), 1, 3), <<>> }

\* key sets of at most MaxEntries keys
KeySets(ids) == {K \in SUBSET ids : Cardinality(K) <= MaxEntries}

\* scalar factors 0.5 and 0.75
GeomValues == {Norm(1, 1), Norm(3, 2)}
\* PU factor vectors
PUValues == {<<Norm(1, 1)>>, <<Norm(3, 2), Norm(1, 1)>>}

FactorMaps(ids, values) == UNION {[K -> values] : K \in KeySets(ids)}

\* the empty std::map
EmptyMap == <<>>

-----------------------------------------------------------------------------
(* The matchers applied to a payload *)

InitMatch ==
  /\ pc = "idle"
  /\ \/ PixelGeomFactors \in FactorMaps(StoredIds, GeomValues) /\ PUFactors = EmptyMap
     \/ PixelGeomFactors = EmptyMap /\ PUFactors \in FactorMaps(StoredIds, PUValues)
  /\ DetIdmasks \in MatchMaskLists
  /\ detid = {}
  /\ geomfactor_db = One
  /\ pufactors_db = <<>>
  /\ f = <<>>
  /\ phase = "one"
  /\ compatible = FALSE
  /\ depth = 0
  /\ input = 0
  /\ testNum = 0
  /\ sides = <<0, 0>>
  /\ plot = "none"
  /\ todo = {}
  /\ fullMap = <<>>
  /\ maps = <<>>
  /\ rocToMark = {}
  /\ theMap = <<>>

payload == <<PixelGeomFactors, PUFactors, DetIdmasks>>
gridVars == <<depth, input, testNum, sides>>

\* const auto& value = getMatchingGeomFactor(det, theMap, detIdmasks_db)
GetMatchingGeomFactor(d) ==
  /\ pc = "idle"
  /\ pc' = "getMatchingGeomFactor"
  /\ detid' = d
  /\ geomfactor_db' = getMatchingGeomFactor(d, PixelGeomFactors, DetIdmasks)
  /\ pufactors_db' = <<>>
  /\ UNCHANGED <<payload, f, phase, compatible, gridVars, fillVars>>

\* const auto& values = getMatchingPUFactors(det, theMap, detIdmasks_db)
GetMatchingPUFactors(d) ==
  /\ pc = "idle"
  /\ pc' = "getMatchingPUFactors"
  /\ detid' = d
  /\ pufactors_db' = getMatchingPUFactors(d, PUFactors, DetIdmasks)
  /\ geomfactor_db' = One
  /\ UNCHANGED <<payload, f, phase, compatible, gridVars, fillVars>>

NextMatch ==
  \/ \E d \in p1detIds : GetMatchingGeomFactor(d)
  \/ \E d \in p1detIds : GetMatchingPUFactors(d)

SpecMatch == InitMatch /\ [][NextMatch]_vars

-----------------------------------------------------------------------------
(* Properties of the matchers *)

\* the bits of the detector and subdetector fields of an identifier
HeaderBits == Field(25, 7)

\* the identifier carrying only the detector and subsystem bits of id
rootId(id) == And(id, HeaderBits)

\* the match predicate as the specification states it
matchPredicate(target, stored, masks) ==
  /\ subdetId(stored) = subdetId(target)
  /\ ~ \E i \in 1..Len(masks) :
         /\ subdetId(masks[i]) = subdetId(stored)
         /\ And(target, masks[i]) # And(stored, masks[i])
         /\ And(stored, masks[i]) # rootId(stored)

\* the map the last call worked on
CalledMap == IF pc = "getMatchingGeomFactor" THEN PixelGeomFactors ELSE PUFactors

\* the stored identifiers that match the target of the last call
Matching == {k \in DOMAIN CalledMap : matchPredicate(detid, k, DetIdmasks)}

RECURSIVE ProdM(_, _)
ProdM(S, map) == IF S = {} THEN 1
                 ELSE LET k == CHOOSE x \in S : TRUE IN map[k].m * ProdM(S \ {k}, map)

RECURSIVE SumK(_, _)
SumK(S, map) == IF S = {} THEN 0
                ELSE LET k == CHOOSE x \in S : TRUE IN map[k].k + SumK(S \ {k}, map)

\* the product of the values of the entries of S, each taken once
ProductOf(S, map) == Norm(ProdM(S, map), SumK(S, map))

\* C1: getMatchingGeomFactor returns the product of the values of exactly the
\* stored entries for which the match predicate holds, each multiplied in
\* once, and 1 when no entry matches (so for the empty map).
C1_ProductOfMatches ==
  pc = "getMatchingGeomFactor" =>
    /\ geomfactor_db = ProductOf(Matching, PixelGeomFactors)
    /\ (Matching = {} => geomfactor_db = One)

\* a call with two matching entries of values 0.5 and 0.75, returning 0.375
C1_Witness ==
  /\ pc = "getMatchingGeomFactor"
  /\ \E a, b \in Matching :
       /\ PixelGeomFactors[a] = Norm(1, 1)
       /\ PixelGeomFactors[b] = Norm(3, 2)
  /\ geomfactor_db = Norm(3, 3)

\* C2: getMatchingPUFactors returns the value sequence of the last matching
\* entry in ascending key order, and the empty sequence when no entry
\* matches, in particular when no stored entry is of the target's subsystem.
C2_LastMatchWins ==
  pc = "getMatchingPUFactors" =>
    /\ Matching # {} =>
         \E k \in Matching :
           /\ \A o \in Matching : o = k \/ Less(o, k)
           /\ pufactors_db = PUFactors[k]
    /\ Matching = {} => pufactors_db = <<>>
    /\ (\A k \in DOMAIN PUFactors : subdetId(k) # subdetId(detid))
         => pufactors_db = <<>>

\* a call with two matching entries of different values: the one of the larger
\* key is returned
C2_Witness ==
  /\ pc = "getMatchingPUFactors"
  /\ \E a, b \in Matching :
       /\ Less(a, b)
       /\ PUFactors[a] # PUFactors[b]
       /\ pufactors_db = PUFactors[b]

\* the masks of a list that are of subsystem s, in the order of the list
MasksOf(s, masks) == SelectSeq(masks, LAMBDA m : subdetId(m) = s)

\* C3: an entry is applied by the loop of the resolvers iff it is of the
\* target's subsystem and no mask of the entry's subsystem selects bits in
\* which target and entry differ while the entry's bits are not the bare root
\* identifier; masks of another subsystem never disqualify (dropping them
\* from the list changes nothing), and with no masks
\* every entry of the target's subsystem applies.
C3_MatchPredicate ==
  pc # "idle" =>
    \A k \in DOMAIN CalledMap :
      /\ entryApplies(detid, k, DetIdmasks) <=> matchPredicate(detid, k, DetIdmasks)
      /\ entryApplies(detid, k, DetIdmasks)
           <=> entryApplies(detid, k, MasksOf(subdetId(k), DetIdmasks))
      /\ DetIdmasks = <<>> =>
           (entryApplies(detid, k, DetIdmasks) <=> subdetId(k) = subdetId(detid))

\* an entry of the target's subsystem is rejected by a mask of its subsystem
\* although masks of the other subsystem come before it in the list
C3_Witness ==
  /\ pc # "idle"
  /\ \E k \in DOMAIN CalledMap :
       /\ subdetId(k) = subdetId(detid)
       /\ ~entryApplies(detid, k, DetIdmasks)
       /\ Len(DetIdmasks) > 0
       /\ subdetId(DetIdmasks[1]) # subdetId(k)

\* the hierarchy field a mask selects: its bits below the header
FieldBits(m) == m \ HeaderBits

-----------------------------------------------------------------------------
(* pbrf: unpacking the per-ROC entries of the geometry factors *)

\* enum shiftEnumerator
FPixRocIdShift == 3
BPixRocIdShift == 6
\* 0x1F
rocIdMaskBits == 31

\* the shift of the ROC field of an identifier
shiftOf(id) ==
  IF subdetId(id) = PixelBarrel THEN BPixRocIdShift ELSE FPixRocIdShift

\* unsigned int rocMask = rocIdMaskBits << shift
rocMaskOf(shift) == Shl(FromNat(rocIdMaskBits), shift)

\* unsigned int rocId = ((id & rocMask) >> shift)
rocIdOf(id, shift) == ToNat(Shr(And(id, rocMaskOf(shift)), shift))

\* the ROC mask left unshifted
rawidOfUnshifted(id, shift) == And(id, Not(FromNat(rocIdMaskBits)))

\* uint32_t rawid = id & (~rocMask)
rawidOf(id, shift) == And(id, Not(rocMaskOf(shift)))

\* packedBadRocFraction p
EmptyFraction == [badRocNumber |-> <<>>, badRocFrac |-> <<>>]

\* the record inserted only together with its first ROC
pbrfStepInsertWithRoc(fr, id, factor) ==
  LET shift == shiftOf(id)
      rocId == rocIdOf(id, shift)
      rawid == rawidOf(id, shift)
      f1    == IF rawid \notin DOMAIN fr THEN fr @@ (rawid :> EmptyFraction) ELSE fr
  IN IF rocId # 0
       THEN [f1 EXCEPT ![rawid] =
               [badRocNumber |-> Append(@.badRocNumber, rocId - 1),
                badRocFrac   |-> Append(@.badRocFrac, ToFloat(OneMinus(factor)))]]
       ELSE fr

\* the decrement of rocId left out
pbrfStepNoDecrement(fr, id, factor) ==
  LET shift == shiftOf(id)
      rocId == rocIdOf(id, shift)
      rawid == rawidOf(id, shift)
      f1    == IF rawid \notin DOMAIN fr THEN fr @@ (rawid :> EmptyFraction) ELSE fr
  IN IF rocId # 0
       THEN [f1 EXCEPT ![rawid] =
               [badRocNumber |-> Append(@.badRocNumber, rocId),
                badRocFrac   |-> Append(@.badRocFrac, ToFloat(OneMinus(factor)))]]
       ELSE f1

\* the body of the loop over PixelGeomFactorsDBIn for one (id, factor)
pbrfStep(fr, id, factor) ==
  LET shift == shiftOf(id)
      rocId == rocIdOf(id, shift)
      rawid == rawidOf(id, shift)
      f1    == IF rawid \notin DOMAIN fr THEN fr @@ (rawid :> EmptyFraction) ELSE fr
  IN IF rocId # 0
       THEN [f1 EXCEPT ![rawid] =
               [badRocNumber |-> Append(@.badRocNumber, rocId - 1),
                badRocFrac   |-> Append(@.badRocFrac, ToFloat(OneMinus(factor)))]]
       ELSE f1

RECURSIVE pbrfLoop(_, _, _)
\* the loop over PixelGeomFactorsDBIn, `rest` being the keys not yet visited
pbrfLoop(map, rest, fr) ==
  IF rest = {} THEN fr
  ELSE LET id == FirstKey(rest) IN
       pbrfLoop(map, rest \ {id}, pbrfStep(fr, id, map[id]))

pbrf(map) == pbrfLoop(map, DOMAIN map, EmptyMap)

-----------------------------------------------------------------------------
(* Inputs of pbrf *)

\* modules of the Phase-1 detector
PbrfModules ==
  { pxbDetId("one", N(1), N(1), N(1)),
    pxbDetId("one", N(1), N(1), N(2)),
    pxfDetId("one", N(1), N(1), N(1), N(1), N(1)) }

\* ROC indices written into the ROC field (0: the module as a whole)
PbrfRocs == {0, 3, 16, 31}

\* keys of the geometry factors: a module with a ROC index in its ROC field
PbrfKeys == {Or(mod, Shl(N(r), shiftOf(mod))) : mod \in PbrfModules, r \in PbrfRocs}

\* factors 0.5 and 0.5 - 2^-26 (1 - factor then has 26 significant bits)
PbrfValues == {Norm(1, 1), Norm(2^25 - 1, 26)}

\* identifiers of any detector: a header and any bits around the ROC fields
IdHeaders ==
  { DetIdOf(Tracker, PixelBarrel), DetIdOf(Tracker, PixelEndcap), {31, 27, 24, 0} }
IdUniverse == {Or(h, low) : h \in IdHeaders, low \in SUBSET Field(2, 10)}

InitPbrf ==
  /\ pc = "idle"
  /\ \/ PixelGeomFactors \in FactorMaps(PbrfKeys, PbrfValues)
     \/ \E id \in IdUniverse : PixelGeomFactors = (id :> Norm(1, 1))
  /\ PUFactors = EmptyMap
  /\ DetIdmasks = <<>>
  /\ detid = {}
  /\ geomfactor_db = One
  /\ pufactors_db = <<>>
  /\ f = EmptyMap
  /\ phase = "one"
  /\ compatible = FALSE
  /\ depth = 0
  /\ input = 0
  /\ testNum = 0
  /\ sides = <<0, 0>>
  /\ plot = "none"
  /\ todo = {}
  /\ fullMap = <<>>
  /\ maps = <<>>
  /\ rocToMark = {}
  /\ theMap = <<>>

\* const auto fr = SiPixDynIneff::pbrf(payload)
Pbrf ==
  /\ pc = "idle"
  /\ pc' = "pbrf"
  /\ f' = pbrf(PixelGeomFactors)
  /\ UNCHANGED <<payload, detid, geomfactor_db, pufactors_db, phase, compatible, gridVars, fillVars>>

NextPbrf == Pbrf

SpecPbrf == InitPbrf /\ [][NextPbrf]_vars

-----------------------------------------------------------------------------
(* Properties of pbrf *)

\* the 5-bit region field of an identifier: at bit 6 for the barrel
\* subsystem (bits 25..27 = 001), at bit 3 otherwise
RegionField(id) ==
  IF And(id, Field(25, 3)) = {25} THEN Field(6, 5) ELSE Field(3, 5)

\* the identifier with its region field cleared
ModuleIdOf(id) == id \ RegionField(id)

\* the value of the region field
RegionIndexOf(id) ==
  LET fld == RegionField(id) IN ToNat({b - StartBit(fld) : b \in And(id, fld)})

\* the input entries of a module
EntriesOf(mod) == {id \in DOMAIN PixelGeomFactors : ModuleIdOf(id) = mod}

\* C5: the keys of pbrf's output are exactly the module ids of the input keys;
\* a module whose entries all have region index 0 is present with empty
\* sequences.
C5_ModuleKeys ==
  pc = "pbrf" =>
    /\ DOMAIN f = {ModuleIdOf(id) : id \in DOMAIN PixelGeomFactors}
    /\ \A mod \in DOMAIN f :
         (\A id \in EntriesOf(mod) : RegionIndexOf(id) = 0)
           => f[mod] = [badRocNumber |-> <<>>, badRocFrac |-> <<>>]

\* two modules unpacked, one of them from a single entry of region index 0
C5_Witness ==
  /\ pc = "pbrf"
  /\ Cardinality(DOMAIN f) = 2
  /\ \E mod \in DOMAIN f :
       /\ EntriesOf(mod) = {mod}
       /\ f[mod].badRocNumber = <<>>

\* the records (region index, value) of a module of the output
RecordsOf(mod) ==
  {<<f[mod].badRocNumber[i], f[mod].badRocFrac[i]>> : i \in 1..Len(f[mod].badRocNumber)}

\* x = 1 - a, stated as x + a = 1 on the common denominator
IsOneMinus(x, a) ==
  LET K == IF x.k > a.k THEN x.k ELSE a.k
  IN x.m * 2^(K - x.k) + a.m * 2^(K - a.k) = 2^K

\* v is x rounded to a nearest float: v has at most 24 significant bits and
\* lies within half a unit of the 24th significant bit of x
IsFloatOf(v, x) ==
  /\ BitLen(v.m) <= 24
  /\ IF BitLen(x.m) <= 24 THEN v = x
     ELSE /\ v.k <= x.k
          /\ LET V == v.m * 2^(x.k - v.k)
                 d == IF V > x.m THEN V - x.m ELSE x.m - V
             IN 2 * d <= 2^(BitLen(x.m) - 24)

\* the entries of a module with a non-zero region index
RegionEntriesOf(mod) == {id \in EntriesOf(mod) : RegionIndexOf(id) # 0}

\* C6 as stated: the two sequences of a module have equal length and hold
\* exactly one record (k - 1, 1 - factor) for each entry of the module with
\* region index k # 0, so every index is in 0..30.
C6_RecordsExact ==
  pc = "pbrf" =>
    \A mod \in DOMAIN f :
      /\ Len(f[mod].badRocNumber) = Len(f[mod].badRocFrac)
      /\ Len(f[mod].badRocNumber) = Cardinality(RegionEntriesOf(mod))
      /\ \A id \in RegionEntriesOf(mod) :
           \E rec \in RecordsOf(mod) :
             /\ rec[1] = RegionIndexOf(id) - 1
             /\ IsOneMinus(rec[2], PixelGeomFactors[id])
      /\ \A i \in 1..Len(f[mod].badRocNumber) : f[mod].badRocNumber[i] \in 0..30

\* C6 (amended): as above, the value of a record being 1 - factor rounded to
\* single precision (the sequence badRocFrac holds floats).
C6_RecordsFloat ==
  pc = "pbrf" =>
    \A mod \in DOMAIN f :
      /\ Len(f[mod].badRocNumber) = Len(f[mod].badRocFrac)
      /\ Len(f[mod].badRocNumber) = Cardinality(RegionEntriesOf(mod))
      /\ \A id \in RegionEntriesOf(mod) :
           \E rec \in RecordsOf(mod) :
             /\ rec[1] = RegionIndexOf(id) - 1
             /\ LET x == OneMinus(PixelGeomFactors[id])
                IN IsOneMinus(x, PixelGeomFactors[id]) /\ IsFloatOf(rec[2], x)
      /\ \A i \in 1..Len(f[mod].badRocNumber) : f[mod].badRocNumber[i] \in 0..30

\* the example: a module with entries of region 0 (any factor) and region 3
\* (factor 0.5) gives the single record (2, 0.5)
C6_Witness ==
  /\ pc = "pbrf"
  /\ \E mod \in DOMAIN f :
       /\ Cardinality(EntriesOf(mod)) = 2
       /\ mod \in EntriesOf(mod)
       /\ \E id \in EntriesOf(mod) :
            RegionIndexOf(id) = 3 /\ PixelGeomFactors[id] = Norm(1, 1)
       /\ f[mod] = [badRocNumber |-> <<2>>, badRocFrac |-> <<Norm(1, 1)>>]

\* C10: for every identifier and both shift constants, the decoded region
\* index is in 0..31, the module id has the region field zero and the
\* subsystem of the identifier, and module id | (region index << shift) is the
\* identifier again; the keys given to pbrf are recovered in this way from
\* the module keys and region indices it returns.
C10_RoundTrip ==
  /\ \A id \in DOMAIN PixelGeomFactors :
       \A shift \in {BPixRocIdShift, FPixRocIdShift} :
         /\ rocIdOf(id, shift) \in 0..31
         /\ And(rawidOf(id, shift), Field(shift, 5)) = {}
         /\ And(rawidOf(id, shift), Field(25, 3)) = And(id, Field(25, 3))
         /\ Or(rawidOf(id, shift), Shl(FromNat(rocIdOf(id, shift)), shift)) = id
  /\ pc = "pbrf" =>
       \A id \in DOMAIN PixelGeomFactors :
         \E mod \in DOMAIN f :
           \/ id = mod
           \/ \E i \in 1..Len(f[mod].badRocNumber) :
                id = Or(mod, Shl(FromNat(f[mod].badRocNumber[i] + 1),
                                 StartBit(RegionField(mod))))

\* an identifier of neither pixel subsystem with region index 31 (shift 3)
\* and bits set on both sides of the region field
C10_Witness ==
  /\ pc = "pbrf"
  /\ \E id \in DOMAIN PixelGeomFactors :
       /\ And(id, Field(25, 3)) = {27}
       /\ {2, 8} \subseteq id
       /\ rocIdOf(id, shiftOf(id)) = 31
       /\ f[rawidOf(id, shiftOf(id))].badRocNumber = <<30>>

-----------------------------------------------------------------------------
(* checkPhase *)

\* std::equal run over the shorter of the two lists, the sizes not compared
checkPhasePrefix(ph, masks_db) ==
  LET mg == masks_geom(ph)
      n  == IF Len(mg) < Len(masks_db) THEN Len(mg) ELSE Len(masks_db)
  IN \A i \in 1..n : mg[i] = masks_db[i]

\* masks_geom.size() == masks_db.size() &&
\* std::equal(masks_geom.begin(), masks_geom.end(), masks_db.begin())
checkPhase(ph, masks_db) ==
  LET mg == masks_geom(ph)
  IN /\ Len(mg) = Len(masks_db)
     /\ \A i \in 1..Len(mg) : mg[i] = masks_db[i]

\* a list with the elements at positions i and j exchanged
Swap(l, i, j) == [l EXCEPT ![i] = l[j], ![j] = l[i]]

\* values found at one position of a list that differs from the expected one
OtherMasks == {DetIdOf(Tracker, PixelBarrel), Or(DetIdOf(Tracker, PixelEndcap), Field(2, 4))}

\* mask lists a payload may carry: the lists of a phase, their prefixes,
\* extensions, reorderings and lists differing from them in one position
PhaseMaskLists ==
  UNION { {masks_geom(ph)}
          \cup {SubSeq(masks_geom(ph), 1, n) : n \in 0..7}
          \cup {Append(masks_geom(ph), x) : x \in OtherMasks}
          \cup {Swap(masks_geom(ph), i, j) : i, j \in 1..8}
          \cup {[masks_geom(ph) EXCEPT ![i] = x] : i \in 1..8, x \in OtherMasks}
          : ph \in {"zero", "one"} }

InitPhase ==
  /\ pc = "idle"
  /\ PixelGeomFactors = EmptyMap
  /\ PUFactors = EmptyMap
  /\ DetIdmasks \in PhaseMaskLists
  /\ detid = {}
  /\ geomfactor_db = One
  /\ pufactors_db = <<>>
  /\ f = EmptyMap
  /\ phase = "one"
  /\ compatible = FALSE
  /\ depth = 0
  /\ input = 0
  /\ testNum = 0
  /\ sides = <<0, 0>>
  /\ plot = "none"
  /\ todo = {}
  /\ fullMap = <<>>
  /\ maps = <<>>
  /\ rocToMark = {}
  /\ theMap = <<>>

\* checkPhase(phase, detIdmasks_db)
CheckPhase(ph) ==
  /\ pc = "idle"
  /\ pc' = "checkPhase"
  /\ phase' = ph
  /\ compatible' = checkPhase(ph, DetIdmasks)
  /\ UNCHANGED <<payload, detid, geomfactor_db, pufactors_db, f, gridVars, fillVars>>

NextPhase == \E ph \in Phases : CheckPhase(ph)

SpecPhase == InitPhase /\ [][NextPhase]_vars

-----------------------------------------------------------------------------
(* Properties of checkPhase *)

\* the masks expected for a phase: for each hierarchy field of the barrel,
\* then of the endcap, the subsystem's root identifier with every bit of the
\* field set
ExpectedMasks(ph) ==
  [i \in 1..8 |->
     IF i <= 3 THEN DetIdOf(Tracker, PixelBarrel) \cup pxbVals(ph)[i]
     ELSE DetIdOf(Tracker, PixelEndcap) \cup pxfVals(ph)[i - 3]]

\* a is a strict prefix of b
StrictPrefix(a, b) == Len(a) < Len(b) /\ a = SubSeq(b, 1, Len(a))

\* C7: checkPhase returns true iff the supplied list equals the list of the
\* masks expected for the phase; so not for a strict prefix or an extension
\* of it, nor for a list of its length differing from it at some position.
C7_StrictEquality ==
  pc = "checkPhase" =>
    /\ compatible <=> DetIdmasks = ExpectedMasks(phase)
    /\ StrictPrefix(DetIdmasks, ExpectedMasks(phase)) => ~compatible
    /\ StrictPrefix(ExpectedMasks(phase), DetIdmasks) => ~compatible
    /\ (\E i \in 1..Len(DetIdmasks) :
          i <= 8 /\ DetIdmasks[i] # ExpectedMasks(phase)[i]) => ~compatible

\* the masks of phase one are accepted for phase one
C7_Witness ==
  /\ pc = "checkPhase"
  /\ phase = "one"
  /\ Len(DetIdmasks) = 8
  /\ DetIdmasks[1] = {20, 21, 22, 23, 25, 28}
  /\ compatible

-----------------------------------------------------------------------------
(* maxDepthOfPUArray and getClosestFactors, as the PU map plot calls them *)

\* the largest vec.size() over the map, 0 for the empty map
\* `<` written for `>`: the smallest vector size
maxDepthOfPUArrayMin(map_pufactor) ==
  IF DOMAIN map_pufactor = {} THEN 0
  ELSE LET sizes == {Len(map_pufactor[id]) : id \in DOMAIN map_pufactor}
       IN CHOOSE n \in sizes : \A o \in sizes : n <= o

\* the largest vector size, 0 for the empty map
maxDepthOfPUArray(map_pufactor) ==
  IF DOMAIN map_pufactor = {} THEN 0
  ELSE LET sizes == {Len(map_pufactor[id]) : id \in DOMAIN map_pufactor}
       IN CHOOSE n \in sizes : \A o \in sizes : o <= n

\* the increment made for every odd input, 1 included
evenCoverOfOne(n) == IF n % 2 # 0 THEN n + 1 ELSE n

\* if ((input % 2 != 0) && input > 1) input += 1
evenCover(n) == IF (n % 2 # 0) /\ n > 1 THEN n + 1 ELSE n

\* (int)sqrt(input), for input >= 0
intSqrt(n) == CHOOSE k \in 0..n : k * k <= n /\ (k + 1) * (k + 1) > n

\* PU factor maps: up to two keys, vectors of up to MaxDepth factors
GridKeys ==
  { pxbDetId("one", N(1), N(0), N(0)), pxfDetId("one", N(1), N(1), N(0), N(0), N(0)) }
GridVectors == {[i \in 1..n |-> One] : n \in 0..MaxDepth}
GridMaps == UNION {[K -> GridVectors] : K \in SUBSET GridKeys}

InitGrid ==
  /\ pc = "idle"
  /\ PixelGeomFactors = EmptyMap
  /\ PUFactors \in GridMaps
  /\ DetIdmasks = masks_geom("one")
  /\ detid = {}
  /\ geomfactor_db = One
  /\ pufactors_db = <<>>
  /\ f = EmptyMap
  /\ phase = "one"
  /\ compatible = FALSE
  /\ depth = 0
  /\ input = 0
  /\ testNum = 0
  /\ sides = <<0, 0>>
  /\ plot = "none"
  /\ todo = {}
  /\ fullMap = <<>>
  /\ maps = <<>>
  /\ rocToMark = {}
  /\ theMap = <<>>

matchVars == <<detid, geomfactor_db, pufactors_db, f, phase, compatible>>

\* unsigned int depth = maxDepthOfPUArray(theMap)
MaxDepthOfPUArray ==
  /\ pc = "idle"
  /\ pc' = "depth"
  /\ depth' = maxDepthOfPUArray(PUFactors)
  /\ UNCHANGED <<payload, matchVars, input, testNum, sides, fillVars>>

\* auto sides = getClosestFactors(depth): the statements before the loop
GetClosestFactors ==
  /\ pc = "depth"
  /\ pc' = "while"
  /\ input' = evenCover(depth)
  /\ testNum' = intSqrt(input')
  /\ UNCHANGED <<payload, matchVars, depth, sides, fillVars>>

\* while (input % testNum != 0) testNum--
WhileStep ==
  /\ pc = "while"
  /\ testNum # 0
  /\ input % testNum # 0
  /\ testNum' = testNum - 1
  /\ UNCHANGED <<pc, payload, matchVars, depth, input, sides, fillVars>>

\* return std::make_pair(testNum, input / testNum)
Return ==
  /\ pc = "while"
  /\ testNum # 0
  /\ input % testNum = 0
  /\ pc' = "done"
  /\ sides' = <<testNum, input \div testNum>>
  /\ UNCHANGED <<payload, matchVars, depth, input, testNum, fillVars>>

\* input % testNum with testNum = 0 is undefined: the division traps
\* (x86-64), or it yields 0 (aarch64) and so does input / testNum
DivideByZero ==
  /\ pc = "while"
  /\ testNum = 0
  /\ \/ pc' = "SIGFPE" /\ sides' = sides
     \/ pc' = "done" /\ sides' = <<0, 0>>
  /\ UNCHANGED <<payload, matchVars, depth, input, testNum, fillVars>>

NextGrid ==
  \/ MaxDepthOfPUArray
  \/ GetClosestFactors
  \/ WhileStep
  \/ Return
  \/ DivideByZero

\* the routine runs on once called
SpecGrid == InitGrid /\ [][NextGrid]_vars /\ WF_vars(NextGrid)

-----------------------------------------------------------------------------
(* Properties of getClosestFactors *)

\* the count the grid must hold: n + 1 for an odd n > 1, else n
CoverOf(n) == IF n % 2 = 1 /\ n > 1 THEN n + 1 ELSE n

\* what C8 says of the pair returned for a count n >= 1
C8_Result ==
  (pc = "done" /\ depth >= 1) =>
    LET r == sides[1]
        c == sides[2]
        n == depth
    IN /\ r <= c
       /\ r * c >= n
       /\ r * c = CoverOf(n)
       /\ r * c - n <= 1
       /\ r * r <= CoverOf(n)
       /\ \A d \in 1..CoverOf(n) :
            (CoverOf(n) % d = 0 /\ d * d <= CoverOf(n)) => d <= r
       /\ n = 6 => sides = <<2, 3>>
       /\ n = 7 => sides = <<2, 4>>
       /\ n = 5 => sides = <<2, 3>>

\* C8: for every count n >= 1, getClosestFactors(n) terminates and returns
\* (r, c) with r <= c, r*c >= n, r*c the count n made even when odd and above
\* 1, and r the largest divisor of r*c not above its square root;
\* closestFactors(6) = (2,3), closestFactors(7) = (2,4), closestFactors(5) = (2,3).
C8_ClosestFactors ==
  /\ []C8_Result
  /\ [](pc = "while" /\ depth >= 1 => testNum >= 1)
  /\ (pc = "depth" /\ depth >= 1) ~> (pc = "done")

\* the call for 7 has returned (2, 4) after one turn of the loop downwards
C8_Witness ==
  /\ pc = "done"
  /\ depth = 7
  /\ input = 8
  /\ testNum = 2
  /\ sides = <<2, 4>>

\* C9: for a count n <= 1 the routine returns (1, n) and never divides by
\* zero, also for the count 0 of an empty PU factor map.
C9_SpecialCase ==
  (pc \in {"while", "done", "SIGFPE"} /\ depth <= 1) =>
    /\ pc # "SIGFPE"
    /\ pc = "done" => sides = <<1, depth>>

-----------------------------------------------------------------------------
(* The loop of getMatchingGeomFactor with the map entries in a given order *)

RECURSIVE geomLoopInOrder(_, _, _, _, _)
\* the body of the loop over map_geomfactor applied to the entries in the
\* order of the key sequence `order`
geomLoopInOrder(target, map_geomfactor, detIdmasks, order, acc) ==
  IF order = <<>> THEN acc
  ELSE LET mapid == Head(order) IN
       geomLoopInOrder(target, map_geomfactor, detIdmasks, Tail(order),
                       IF entryApplies(target, mapid, detIdmasks)
                         THEN Mul(acc, map_geomfactor[mapid])
                         ELSE acc)

\* the orders in which the elements of a finite set can be visited
Perms(S) ==
  {s \in [1..Cardinality(S) -> S] : \A i, j \in 1..Cardinality(S) : i # j => s[i] # s[j]}

\* C11: the product returned by getMatchingGeomFactor does not depend on the
\* order in which the entries of the map are visited: the loop run over any
\* permutation of the entries gives the value returned.
C11_OrderIndependent ==
  pc = "getMatchingGeomFactor" =>
    \A order \in Perms(DOMAIN PixelGeomFactors) :
      geomLoopInOrder(detid, PixelGeomFactors, DetIdmasks, order, One) = geomfactor_db

\* two matching entries, 0.75 at the smaller key and 0.5 at the larger one
C11_Witness ==
  /\ pc = "getMatchingGeomFactor"
  /\ \E a, b \in DOMAIN PixelGeomFactors :
       /\ Less(a, b)
       /\ entryApplies(detid, a, DetIdmasks) /\ entryApplies(detid, b, DetIdmasks)
       /\ PixelGeomFactors[a] = Norm(3, 2)
       /\ PixelGeomFactors[b] = Norm(1, 1)
  /\ geomfactor_db = Norm(3, 3)

-----------------------------------------------------------------------------
(* The matchers applied to payloads whose masks come in every order *)

\* masks of the barrel layer, of the barrel ladder and of the endcap disk
OrderMasks ==
  { masks_geom("one")[1], masks_geom("one")[2], masks_geom("one")[5] }

\* every list without repetition of masks taken from OrderMasks
OrderMaskLists == UNION {Perms(S) : S \in SUBSET OrderMasks}

\* keys with two hierarchy fields set
OrderIds ==
  { pxbDetId("one", N(1), N(2), N(0)),
    pxbDetId("one", N(2), N(2), N(0)),
    pxfDetId("one", N(0), N(1), N(3), N(0), N(0)) }

InitOrder ==
  /\ pc = "idle"
  /\ \/ PixelGeomFactors \in FactorMaps(OrderIds, GeomValues) /\ PUFactors = EmptyMap
     \/ PixelGeomFactors = EmptyMap /\ PUFactors \in FactorMaps(OrderIds, PUValues)
  /\ DetIdmasks \in OrderMaskLists
  /\ detid = {}
  /\ geomfactor_db = One
  /\ pufactors_db = <<>>
  /\ f = <<>>
  /\ phase = "one"
  /\ compatible = FALSE
  /\ depth = 0
  /\ input = 0
  /\ testNum = 0
  /\ sides = <<0, 0>>
  /\ plot = "none"
  /\ todo = {}
  /\ fullMap = <<>>
  /\ maps = <<>>
  /\ rocToMark = {}
  /\ theMap = <<>>

SpecOrder == InitOrder /\ [][NextMatch]_vars

\* the list detIdmasks with its elements in the order p
Permuted(detIdmasks, p) == [i \in 1..Len(detIdmasks) |-> detIdmasks[p[i]]]

\* C12: the match decision for a target and a stored key does not depend on
\* the order of the mask list: under every permutation of the masks the loop
\* with its break gives the same decision, and getMatchingGeomFactor and
\* getMatchingPUFactors return the value they returned for the list as given.
C12_MaskOrderIndependent ==
  pc \in {"getMatchingGeomFactor", "getMatchingPUFactors"} =>
    \A p \in Perms(1..Len(DetIdmasks)) :
      LET permuted == Permuted(DetIdmasks, p) IN
      /\ \A mapid \in OrderIds :
           entryApplies(detid, mapid, permuted) = entryApplies(detid, mapid, DetIdmasks)
      /\ pc = "getMatchingGeomFactor" =>
           getMatchingGeomFactor(detid, PixelGeomFactors, permuted) = geomfactor_db
      /\ pc = "getMatchingPUFactors" =>
           getMatchingPUFactors(detid, PUFactors, permuted) = pufactors_db

\* a key rejected by one barrel mask only, the other barrel mask standing
\* before it in the list, next to a key that applies
C12_Witness ==
  /\ pc = "getMatchingPUFactors"
  /\ Len(DetIdmasks) = Cardinality(OrderMasks)
  /\ \E i, j \in DOMAIN DetIdmasks :
       /\ i < j
       /\ subdetId(DetIdmasks[i]) = PixelBarrel
       /\ subdetId(DetIdmasks[j]) = PixelBarrel
       /\ \E mapid \in DOMAIN PUFactors :
            /\ subdetId(mapid) = subdetId(detid)
            /\ ~maskBreaks(detid, mapid, DetIdmasks[i])
            /\ maskBreaks(detid, mapid, DetIdmasks[j])
  /\ pufactors_db # <<>>

-----------------------------------------------------------------------------
(* checkPhase called with a phase that no case label of its switch names *)

\* a value of SiPixelPI::phase other than zero, one and two
UnrecognizedPhases == {"undefined"}

\* checkPhase(phase, detIdmasks_db) for such a value: the switch has no
\* default label and assigns nothing, so edm::FileInPath is constructed from
\* the uninitialised pointer inputFile.  The read faults, or the bytes found
\* name no file and edm::FileInPath throws, or the pointer holds the address
\* of one of the three file names and the masks of that phase are compared.
CheckPhaseUnrecognized(ph) ==
  /\ pc = "idle"
  /\ phase' = ph
  /\ \/ pc' = "SIGSEGV" /\ compatible' = compatible
     \/ pc' = "edm::Exception" /\ compatible' = compatible
     \/ \E inputFile \in Phases :
          /\ pc' = "checkPhase"
          /\ compatible' = checkPhase(inputFile, DetIdmasks)
  /\ UNCHANGED <<payload, detid, geomfactor_db, pufactors_db, f, gridVars, fillVars>>

NextPhaseAny ==
  \/ \E ph \in Phases : CheckPhase(ph)
  \/ \E ph \in UnrecognizedPhases : CheckPhaseUnrecognized(ph)

SpecPhaseAny == InitPhase /\ [][NextPhaseAny]_vars

\* C13: a call of checkPhase with a phase other than zero, one and two ends
\* in the outcome UnsupportedSchemeError, and in no other.
C13_UnsupportedScheme ==
  (phase \in UnrecognizedPhases /\ pc # "idle") => pc = "UnsupportedSchemeError"

-----------------------------------------------------------------------------
(* getClosestFactors called with a negative number *)

\* negative arguments of getClosestFactors
NegativeInputs == {0 - n : n \in 1..MaxNegative}

\* getClosestFactors(n) for n < 0, up to the loop.  The first test leaves the
\* input as it is (input > 1 fails) and sqrt(input) is NaN, whose conversion
\* to int is undefined: it yields 0 (aarch64), and the loop then divides by
\* zero, or INT_MIN (x86-64), from where the decrement wraps round to INT_MAX
\* and the loop comes down to the first divisor it meets, -input, and returns
\* (-input, -1).
GetClosestFactorsNegative(n) ==
  /\ pc = "idle"
  /\ input' = evenCover(n)
  /\ \/ pc' = "while" /\ testNum' = 0 /\ sides' = sides
     \/ /\ pc' = "done"
        /\ testNum' = 0 - input'
        /\ sides' = <<testNum', input' \div testNum'>>
  /\ UNCHANGED <<payload, matchVars, depth, fillVars>>

NextGridInt ==
  \/ MaxDepthOfPUArray
  \/ GetClosestFactors
  \/ WhileStep
  \/ Return
  \/ DivideByZero
  \/ \E n \in NegativeInputs : GetClosestFactorsNegative(n)

SpecGridInt == InitGrid /\ [][NextGridInt]_vars

\* C14: getClosestFactors given a negative number ends in the outcome
\* InvalidArgument: it takes no square root of it, divides nothing by it and
\* returns no pair.
C14_RejectsNegative ==
  input < 0 => pc = "InvalidArgument"

-----------------------------------------------------------------------------
(* fill() of SiPixelDynamicInefficiencyFullPixelMap (the geom factor) and of *)
(* SiPixelDynamicInefficiencyPUPixelMaps                                     *)

\* the condition inverted
notSupportedInverted(ok) == ok

\* if (!SiPixDynIneff::checkPhase(SiPixelPI::phase::one, detIdmasks_db))
notSupported(ok) == ~ok

\* keys of the factor maps of the payload
FillIds ==
  { pxbDetId("one", N(1), N(0), N(0)),
    pxbDetId("one", N(0), N(2), N(0)),
    pxfDetId("one", N(1), N(1), N(0), N(0), N(0)) }

\* mask lists of the payload: those of Phase 1, those of Phase 0 and a short one
FillMaskLists ==
  { masks_geom("one"), masks_geom("zero"), SubSeq(masks_geom("one"), 1, 3) }

\* PU factor vectors of the payload: those of PUValues and one of ten factors
FillPUValues == PUValues \cup {[i \in 1..10 |-> Norm(1, 1)]}

\* a plot object and the payload its tag points to; each plot reads one of
\* the two factor maps
InitFill ==
  /\ pc = "idle"
  /\ \/ /\ plot = "FullPixelMap"
        /\ PixelGeomFactors \in FactorMaps(FillIds, GeomValues)
        /\ PUFactors = EmptyMap
     \/ /\ plot = "PUPixelMaps"
        /\ PixelGeomFactors = EmptyMap
        /\ PUFactors \in FactorMaps(FillIds, FillPUValues)
  /\ DetIdmasks \in FillMaskLists
  /\ detid = {}
  /\ geomfactor_db = One
  /\ pufactors_db = <<>>
  /\ f = <<>>
  /\ phase = "one"
  /\ compatible = FALSE
  /\ depth = 0
  /\ input = 0
  /\ testNum = 0
  /\ sides = <<0, 0>>
  /\ todo = {}
  /\ fullMap = <<>>
  /\ maps = <<>>
  /\ rocToMark = {}
  /\ theMap = <<>>

rocVars == <<rocToMark, theMap>>

\* payload = this->fetchPayload(...); if (payload.get()) ... else return true
FetchPayload ==
  /\ pc = "idle"
  /\ plot \in {"FullPixelMap", "PUPixelMaps"}
  /\ \/ pc' = "payload"
     \/ pc' = "return true"
  /\ UNCHANGED <<payload, matchVars, gridVars, plot, todo, fullMap, maps, rocVars>>

\* the call checkPhase(SiPixelPI::phase::one, detIdmasks_db) of fill()
FillCheckPhase ==
  /\ pc = "payload"
  /\ pc' = "checkPhase"
  /\ phase' = "one"
  /\ compatible' = checkPhase("one", DetIdmasks)
  /\ UNCHANGED <<payload, detid, geomfactor_db, pufactors_db, f, gridVars, fillVars>>

\* the branch taken when the masks are not those of Phase 1: return false
DisplayNotSupported ==
  /\ pc = "checkPhase"
  /\ notSupported(compatible)
  /\ pc' = "return false"
  /\ UNCHANGED <<payload, matchVars, gridVars, fillVars>>

\* Phase1PixelSummaryMap::fillTrackerMap(det, value)
fillTrackerMap(map, d, value) == (d :> value) @@ map

\* SiPixelDetInfoFileReader reader(kPh1DefaultFile); p1detIds = reader.getAllDetIds()
GetAllDetIds ==
  /\ pc = "checkPhase"
  /\ ~notSupported(compatible)
  /\ plot = "FullPixelMap"
  /\ pc' = "for"
  /\ todo' = p1detIds
  /\ UNCHANGED <<payload, matchVars, gridVars, plot, fullMap, maps, rocVars>>

\* one iteration of the loop over p1detIds of FullPixelMap::fill()
FillTrackerMap ==
  /\ pc = "for"
  /\ plot = "FullPixelMap"
  /\ todo # {}
  /\ LET d == FirstKey(todo) IN
       /\ detid' = d
       /\ geomfactor_db' = getMatchingGeomFactor(d, PixelGeomFactors, DetIdmasks)
       /\ fullMap' = fillTrackerMap(fullMap, d, geomfactor_db')
       /\ todo' = todo \ {d}
  /\ UNCHANGED <<pc, payload, pufactors_db, f, phase, compatible, gridVars, plot, maps, rocVars>>

\* the end of that loop; what follows draws the map, and fill() returns true
PrintTrackerMap ==
  /\ pc = "for"
  /\ plot = "FullPixelMap"
  /\ todo = {}
  /\ pc' = "return true"
  /\ UNCHANGED <<payload, matchVars, gridVars, fillVars>>

\* depth = maxDepthOfPUArray(theMap), the loop creating `depth` maps and
\* p1detIds = reader.getAllDetIds()
CreateMaps ==
  /\ pc = "checkPhase"
  /\ ~notSupported(compatible)
  /\ plot = "PUPixelMaps"
  /\ pc' = "for"
  /\ depth' = maxDepthOfPUArray(PUFactors)
  /\ maps' = [i \in 1..depth' |-> <<>>]
  /\ todo' = p1detIds
  /\ UNCHANGED <<payload, matchVars, input, testNum, sides, plot, fullMap, rocVars>>

\* one iteration of the loop over p1detIds of PUPixelMaps::fill(): the call
\* of the matcher and the loop over the values.  maps[index] with index not
\* below maps.size() is undefined: the access faults, or the loop goes on
\* with the write landing outside the vector.
FillTrackerMaps ==
  /\ pc = "for"
  /\ plot = "PUPixelMaps"
  /\ todo # {}
  /\ LET d == FirstKey(todo) IN
       /\ detid' = d
       /\ pufactors_db' = getMatchingPUFactors(d, PUFactors, DetIdmasks)
       /\ maps' = [index \in 1..Len(maps) |->
                    IF index <= Len(pufactors_db')
                      THEN fillTrackerMap(maps[index], d, pufactors_db'[index])
                      ELSE maps[index]]
       /\ todo' = todo \ {d}
       /\ IF Len(pufactors_db') > Len(maps)
            THEN pc' \in {"SIGSEGV", "for"}
            ELSE pc' = "for"
  /\ UNCHANGED <<payload, geomfactor_db, f, phase, compatible, gridVars, plot, fullMap, rocVars>>

\* the end of that loop: getClosestFactors(depth) is called next
SetZAxisRanges ==
  /\ pc = "for"
  /\ plot = "PUPixelMaps"
  /\ todo = {}
  /\ pc' = "depth"
  /\ UNCHANGED <<payload, matchVars, gridVars, fillVars>>

NextFill ==
  \/ FetchPayload
  \/ FillCheckPhase
  \/ DisplayNotSupported
  \/ GetAllDetIds
  \/ FillTrackerMap
  \/ PrintTrackerMap
  \/ CreateMaps
  \/ FillTrackerMaps
  \/ SetZAxisRanges
  \/ GetClosestFactors
  \/ WhileStep
  \/ Return
  \/ DivideByZero

SpecFill == InitFill /\ [][NextFill]_vars

-----------------------------------------------------------------------------
(* Properties of fill() *)

\* C15: in fill() of the two full-pixel map plots a matcher is called only
\* after checkPhase(phase one, masks) has returned true for the masks of the
\* payload; when it has returned false the next step is the return of false,
\* and at that return no matcher has been called, no grid computed and no
\* map filled.
C15_GuardBeforeMatcher ==
  /\ [][detid' # detid =>
          /\ pc = "for"
          /\ phase = "one"
          /\ compatible
          /\ checkPhase("one", DetIdmasks)]_vars
  /\ [][(pc = "checkPhase" /\ ~checkPhase("one", DetIdmasks)) => pc' = "return false"]_vars
  /\ [](pc = "return false" =>
          /\ ~checkPhase("one", DetIdmasks)
          /\ detid = {}
          /\ geomfactor_db = One /\ pufactors_db = <<>>
          /\ depth = 0 /\ input = 0 /\ testNum = 0 /\ sides = <<0, 0>>
          /\ todo = {} /\ fullMap = <<>> /\ maps = <<>>)

\* the PU plot, its masks accepted, has called the matcher and filled a map
C15_Witness ==
  /\ plot = "PUPixelMaps"
  /\ pc = "for"
  /\ compatible
  /\ detid \in p1detIds
  /\ pufactors_db # <<>>
  /\ \E i \in DOMAIN maps : detid \in DOMAIN maps[i]

\* C17: the vector getMatchingPUFactors returns is no longer than
\* maxDepthOfPUArray of the map, whatever the masks and the target, so every
\* index the filling loop of PUPixelMaps::fill() uses is below the number of
\* maps created.
C17_IndexInRange ==
  /\ pc = "checkPhase" =>
       \A masks \in FillMaskLists, d \in p1detIds :
         Len(getMatchingPUFactors(d, PUFactors, masks)) <= maxDepthOfPUArray(PUFactors)
  /\ (plot = "PUPixelMaps" /\ detid # {}) =>
       /\ Len(pufactors_db) <= depth
       /\ Len(maps) = depth
       /\ \A index \in 0..(Len(pufactors_db) - 1) : index < Len(maps)
  /\ pc # "SIGSEGV"

\* vectors of different sizes in the map, the matcher returning the longest
C17_Witness ==
  /\ plot = "PUPixelMaps"
  /\ pc = "for"
  /\ \E a, b \in DOMAIN PUFactors : Len(PUFactors[a]) < Len(PUFactors[b])
  /\ Len(pufactors_db) = depth
  /\ depth > 1
  /\ detid \in DOMAIN maps[depth]

-----------------------------------------------------------------------------
(* fill() of SiPixelIneffROCfromDynIneffMap<myType> *)

\* reader.getAllDetIds() of the Phase-0 detector: a sample of its modules
p0detIds ==
  { pxbDetId("zero", N(1), N(1), N(1)),
    pxfDetId("zero", N(1), N(1), N(1), N(1), N(1)) }

\* TRUE iff one of the modules of the fractions is a Phase-0 module
isPhase0(fractions) == \E own \in DOMAIN fractions : own \in p0detIds

\* the three instantiations of the class template and their myType
RocPlots ==
  { "SiPixelBPixIneffROCfromDynIneffMap",
    "SiPixelFPixIneffROCfromDynIneffMap",
    "SiPixelFullIneffROCfromDynIneffMap" }
myType(p) ==
  IF p = "SiPixelBPixIneffROCfromDynIneffMap" THEN "t_barrel"
  ELSE IF p = "SiPixelFPixIneffROCfromDynIneffMap" THEN "t_forward"
  ELSE "t_all"

\* modules of the payload: two of Phase 1 and one of Phase 0
RocModules ==
  { pxbDetId("one", N(1), N(1), N(1)),
    pxfDetId("one", N(1), N(1), N(1), N(1), N(1)),
    pxfDetId("zero", N(1), N(1), N(1), N(1), N(1)) }

\* ROC indices written into the ROC field (0: the module as a whole)
RocRocs == {0, 16, 17}

RocKeys == {Or(mod, Shl(N(r), shiftOf(mod))) : mod \in RocModules, r \in RocRocs}

InitRoc ==
  /\ pc = "idle"
  /\ plot \in RocPlots
  /\ PixelGeomFactors \in FactorMaps(RocKeys, GeomValues)
  /\ PUFactors = EmptyMap
  /\ DetIdmasks = masks_geom("one")
  /\ detid = {}
  /\ geomfactor_db = One
  /\ pufactors_db = <<>>
  /\ f = EmptyMap
  /\ phase = "one"
  /\ compatible = FALSE
  /\ depth = 0
  /\ input = 0
  /\ testNum = 0
  /\ sides = <<0, 0>>
  /\ todo = {}
  /\ fullMap = <<>>
  /\ maps = <<>>
  /\ rocToMark = {}
  /\ theMap = <<>>

\* if (SiPixDynIneff::isPhase0(fr)) { ... return false; }
RocDisplayNotSupported ==
  /\ pc = "pbrf"
  /\ plot \in RocPlots
  /\ isPhase0(f)
  /\ pc' = "return false"
  /\ UNCHANGED <<payload, matchVars, gridVars, fillVars>>

\* Phase1PixelROCMaps theMap(...), and the loop over fr entered
CreateRocMap ==
  /\ pc = "pbrf"
  /\ plot \in RocPlots
  /\ ~isPhase0(f)
  /\ pc' = "for"
  /\ todo' = DOMAIN f
  /\ theMap' = <<>>
  /\ UNCHANGED <<payload, matchVars, gridVars, plot, fullMap, maps, rocToMark>>

\* badRocsF[i] * 100.f, a product of floats
percent(badFraction) == ToFloat(Mul(badFraction, [m |-> 100, k |-> 0]))

\* the condition on subid and myType under which fillSelectedRocs is called
selected(subid, type) ==
  \/ subid = PixelBarrel /\ type = "t_barrel"
  \/ subid = PixelEndcap /\ type = "t_forward"
  \/ type = "t_all"

\* the number of iterations of the loop over badRocs that come to their end:
\* std::bitset<16>::set(pos) throws std::out_of_range for pos >= 16
completed(badRocs) ==
  IF \A i \in DOMAIN badRocs : badRocs[i] < 16 THEN Len(badRocs)
  ELSE (CHOOSE i \in DOMAIN badRocs :
          /\ ~(badRocs[i] < 16)
          /\ \A j \in 1..(i - 1) : badRocs[j] < 16) - 1

\* one iteration of the loop over fr (an unordered_map: any element left may
\* come next) with its loop over badRocs; the exception thrown by set() is
\* caught nowhere in fill()
FillSelectedRocs ==
  /\ pc = "for"
  /\ plot \in RocPlots
  /\ \E rawid \in todo :
       LET badRocs  == f[rawid].badRocNumber
           badRocsF == f[rawid].badRocFrac
           n        == completed(badRocs)
           filled   == [i \in 1..n |-> <<{badRocs[i]}, percent(badRocsF[i])>>]
       IN /\ theMap' = IF selected(subdetId(rawid), myType(plot)) /\ n > 0
                         THEN (rawid :> filled) @@ theMap
                         ELSE theMap
          /\ IF n < Len(badRocs)
               THEN pc' = "std::out_of_range" /\ rocToMark' = {}
               ELSE /\ pc' = "for"
                    /\ rocToMark' = IF n = 0 THEN rocToMark ELSE {badRocs[n]}
          /\ todo' = todo \ {rawid}
  /\ UNCHANGED <<payload, matchVars, gridVars, plot, fullMap, maps>>

\* the end of the loop over fr; what follows draws the maps, and fill()
\* returns true
DrawMaps ==
  /\ pc = "for"
  /\ plot \in RocPlots
  /\ todo = {}
  /\ pc' = "return true"
  /\ UNCHANGED <<payload, matchVars, gridVars, fillVars>>

NextRoc ==
  \/ Pbrf
  \/ RocDisplayNotSupported
  \/ CreateRocMap
  \/ FillSelectedRocs
  \/ DrawMaps

SpecRoc == InitRoc /\ [][NextRoc]_vars

\* C16: once the Phase-0 guard is passed, every ROC index the loops of
\* fill() take from the unpacked records and set in the std::bitset<16> is
\* within 0..15, and set() never throws.
C16_SelectorInRange ==
  (plot \in RocPlots /\ pc \in {"for", "return true", "std::out_of_range"}) =>
    /\ \A rawid \in DOMAIN f \ todo :
         \A i \in DOMAIN f[rawid].badRocNumber : f[rawid].badRocNumber[i] \in 0..15
    /\ rocToMark \subseteq 0..15
    /\ pc # "std::out_of_range"

=============================================================================
